---- MODULE Spec2Model ----
(***************************************************************************)
(* Model of the discrete-event engine of StochasticGame (src/engine.py):   *)
(* GameEngine, the Piece and Facility behaviours and the simpy scheduling  *)
(* they run under.  Simulated time is counted in whole time units (an      *)
(* exponential wait is a positive number of them); every random draw is a  *)
(* nondeterministic choice over the values the generator can return.       *)
(***************************************************************************)
EXTENDS Integers, Sequences, FiniteSets, TLC

VARIABLES
    simulation_mode,      \* GameEngine.simulation_mode (Facility.sim)
    set_up,               \* GameEngine.set_up: "missing" until setup() creates it
    phase,                \* "idle" | "running" | "done" | "failed" : position of run()
    error,                \* exception that left run(), "none" if none
    now,                  \* env.now
    points,               \* GameEngine.points
    possible_points,      \* GameEngine.possible_points
    pieces,               \* GameEngine.pieces: id -> piece
    piece_keys,           \* key order of the pieces dict (insertion order)
    facilities,           \* GameEngine.facilities: id -> facility
    next_piece,           \* GameEngine.next_piece
    event_queue,          \* GameEngine.event_queue: the events the latest step appended
    logged,               \* whether GameEngine.event_queue holds older events
    event_log,            \* GameEngine.event_queue as a whole, where LogFollowed
    queue,                \* simpy's event heap, in processing order
    piece_generators,     \* GameEngine.piece_generators
    facility_generators,  \* GameEngine.facility_generators
    terminated,           \* processes whose generator has returned
    handed,               \* the ids next_piece_id has returned, in order
    calls,                \* attack_pos calls made by the latest step, with their effect
    wraps,                \* wrap_pos calls made by the latest step
    stats                 \* per-facility lines printed at the end of run()

vars == <<simulation_mode, set_up, phase, error, now, points, possible_points, pieces, piece_keys,
          facilities, next_piece, handed, event_queue, logged, event_log, queue,
          piece_generators, facility_generators, terminated, calls, wraps, stats>>

----------------------------------------------------------------------------
(* Bounds of the model *)

\* board half-width (GameEngine.size)
size == 1
\* horizon of env.run(until=...), in simulated time units
Horizon == 3
\* number of strata of the ReconPlane
n_strata == 2
\* helicopters a Helipad spawns before the model stops following the run
MaxHelicopters == 1
\* calls of next_piece_id followed on an engine by itself
MaxCalls == 120

(* Program constants *)

\* GameEngine(difficulty * 20, 50, rt)
resource_limit == 50
\* GameEngine.next_piece after __init__
FirstPieceId == 1
\* Helicopter(id, posx, posy, self.game, self.alpha, 1, self)
HelicopterSpeed == 1
\* yield self.env.timeout(1) of endgame_check
CheckInterval == 1
\* points of an RWTarget / a Target in the configured game
RWPoints == 5
TargetPoints == 1
\* speed of the second RWTarget built by build_game
RWSpeed == 2
\* ids of the configured pieces
RWId == 100001
TargetId == 100010

\* self.width = size * 2
width == size * 2

\* longest Levy jump per axis that is followed: from the centre across either edge
MaxJump == size + 1

----------------------------------------------------------------------------
(* numpy.random *)

\* rand.randint(low, high): integers from low (inclusive) to high (exclusive)
randint(low, high) == low .. (high - 1)

\* np.random.exponential(1/rate) drawn at time t: any positive wait; the waits
\* that end at the horizon or later are one case, no such wake-up being run
\* (exponential_or_zero: a wait of no time at all may be drawn)
exponential_or_zero(t) == 0 .. (Horizon - t)
exponential(t) == 1 .. (Horizon - t)

----------------------------------------------------------------------------
(* Processes and the simpy event heap *)

PieceProc(id) == <<"piece", id>>
FacilityProc(id) == <<"facility", id>>
WatcherProc == <<"watcher", 0>>

\* simpy priorities: URGENT events go before NORMAL ones of the same time
Rank(prio) == IF prio = "URGENT" THEN 0 ELSE 1

\* heap order: (time, priority, insertion order)
Before(a, b) ==
    a.time < b.time \/ (a.time = b.time /\ Rank(a.prio) <= Rank(b.prio))

\* (schedule_latest_first: among events of one time and priority the newest goes first)
schedule_latest_first(q, e) ==
    LET k == Cardinality({i \in 1 .. Len(q) :
                            \/ q[i].time < e.time
                            \/ (q[i].time = e.time /\ Rank(q[i].prio) < Rank(e.prio))})
    IN  SubSeq(q, 1, k) \o <<e>> \o SubSeq(q, k + 1, Len(q))
schedule(q, e) ==
    LET k == Cardinality({i \in 1 .. Len(q) : Before(q[i], e)})
    IN  SubSeq(q, 1, k) \o <<e>> \o SubSeq(q, k + 1, Len(q))

\* env.process(gen): an Initialize event, urgent, at the current time
process(q, t, proc) ==
    schedule(q, [time |-> t, prio |-> "URGENT", proc |-> proc, kind |-> "init"])

\* env.timeout(delay), yielded by proc
timeout(q, t, proc, delay) ==
    schedule(q, [time |-> t + delay, prio |-> "NORMAL", proc |-> proc, kind |-> "timeout"])

\* Process.interrupt(): an Interruption event, urgent, at the current time
interrupt(q, t, proc) ==
    schedule(q, [time |-> t, prio |-> "URGENT", proc |-> proc, kind |-> "interrupt"])

\* the events of q that are not wake-ups of proc
\* (without_nothing: the pending timeout stays armed)
without_nothing(q, proc) == q
without(q, proc) == SelectSeq(q, LAMBDA e : e.proc # proc)

----------------------------------------------------------------------------
(* The state a process step works on, threaded through the calls it makes *)

\* t is env.now during the step
World(t) ==
    [now |-> t, sim |-> simulation_mode, pieces |-> pieces, piece_keys |-> piece_keys,
     points |-> points, event_queue |-> << >>, facilities |-> facilities,
     calls |-> << >>, wraps |-> << >>]

\* Piece.get_pos over the registry
\* (piece_snapshot_active: the snapshot of the active pieces only)
piece_snapshot_active(w) ==
    [p \in {q \in DOMAIN w.pieces : w.pieces[q].active} |->
        <<w.pieces[p].posx, w.pieces[p].posy>>]
piece_snapshot(w) == [p \in DOMAIN w.pieces |-> <<w.pieces[p].posx, w.pieces[p].posy>>]

\* the actor of an event: type(obj).__name__ and obj.id
PieceActor(w, p) == <<w.pieces[p].kind, p>>
FacilityActor(w, f) == <<w.facilities[f].kind, f>>

\* GameEngine.event: append an Event with the time and a snapshot
\* (event_unstamped: the Event stamped with the time of the start of the run)
event_unstamped(w, actor, msg) ==
    [w EXCEPT !.event_queue =
        Append(@, [piece |-> actor, msg |-> msg, time |-> 0,
                   pieces |-> piece_snapshot(w)])]
\* (event_first: the Event inserted at the front of the list)
event_first(w, actor, msg) ==
    [w EXCEPT !.event_queue =
        <<[piece |-> actor, msg |-> msg, time |-> w.now,
           pieces |-> piece_snapshot(w)]>> \o @]
event(w, actor, msg) ==
    [w EXCEPT !.event_queue =
        Append(@, [piece |-> actor, msg |-> msg, time |-> w.now,
                   pieces |-> piece_snapshot(w)])]

\* "if not self.sim: self.game.event(...)" of the pieces and facilities
\* (emit_always: the call without the test of the mode)
emit_always(w, actor, msg) == event(w, actor, msg)
emit(w, actor, msg) == IF w.sim THEN w ELSE event(w, actor, msg)

\* Target.hit
\* (hit_keep_active: hit without "self.active = False")
hit_keep_active(w, p, attacker) ==
    LET w1 == event(w, PieceActor(w, p), <<"destroyed by", attacker>>)
    IN  [w1 EXCEPT !.points = @ + w.pieces[p].points]
\* (hit_scored_if_logged: the points added only where the event is emitted)
hit_scored_if_logged(w, p, attacker) ==
    LET w1 == [w EXCEPT !.pieces[p].active = FALSE]
    IN  IF w.sim THEN w1
        ELSE [event(w1, PieceActor(w1, p), <<"destroyed by", attacker>>)
                 EXCEPT !.points = @ + w.pieces[p].points]
\* (hit_twice_scored: the points added before and after the event)
hit_twice_scored(w, p, attacker) ==
    LET w1 == [w EXCEPT !.pieces[p].active = FALSE, !.points = @ + w.pieces[p].points]
        w2 == emit(w1, PieceActor(w1, p), <<"destroyed by", attacker>>)
    IN  [w2 EXCEPT !.points = @ + w.pieces[p].points]
hit(w, p, attacker) ==
    LET w1 == [w EXCEPT !.pieces[p].active = FALSE]
        w2 == emit(w1, PieceActor(w1, p), <<"destroyed by", attacker>>)
    IN  [w2 EXCEPT !.points = @ + w.pieces[p].points]

\* the loop of GameEngine.attack_pos from key i on; earned is the local sum
\* (attack_loop_any: the loop without the test of active)
RECURSIVE attack_loop_any(_, _, _, _, _, _)
attack_loop_any(w, i, attacker, posx, posy, earned) ==
    IF i > Len(w.piece_keys) THEN [w |-> w, ret |-> earned]
    ELSE LET p == w.piece_keys[i]
         IN  IF /\ w.pieces[p].posx = posx
                /\ w.pieces[p].posy = posy
                /\ w.pieces[p].target
             THEN attack_loop_any(hit(w, p, attacker), i + 1, attacker, posx, posy,
                                  earned + w.pieces[p].points)
             ELSE attack_loop_any(w, i + 1, attacker, posx, posy, earned)
RECURSIVE attack_loop(_, _, _, _, _, _)
attack_loop(w, i, attacker, posx, posy, earned) ==
    IF i > Len(w.piece_keys) THEN [w |-> w, ret |-> earned]
    ELSE LET p == w.piece_keys[i]
         IN  IF /\ w.pieces[p].posx = posx
                /\ w.pieces[p].posy = posy
                /\ w.pieces[p].active
                /\ w.pieces[p].target
             THEN attack_loop(hit(w, p, attacker), i + 1, attacker, posx, posy,
                              earned + w.pieces[p].points)
             ELSE attack_loop(w, i + 1, attacker, posx, posy, earned)

\* GameEngine.attack_pos
\* (attack_pos_first_only: the loop stopping at the first target it hits)
attack_pos_first_only(w, attacker, posx, posy) ==
    LET here == {i \in 1 .. Len(w.piece_keys) :
                    /\ w.pieces[w.piece_keys[i]].posx = posx
                    /\ w.pieces[w.piece_keys[i]].posy = posy
                    /\ w.pieces[w.piece_keys[i]].active
                    /\ w.pieces[w.piece_keys[i]].target}
    IN  IF here = {} THEN [w |-> w, ret |-> 0]
        ELSE LET i == CHOOSE j \in here : \A k \in here : j <= k
                 p == w.piece_keys[i]
             IN  [w |-> hit(w, p, attacker), ret |-> w.pieces[p].points]
attack_pos(w, attacker, posx, posy) == attack_loop(w, 1, attacker, posx, posy, 0)

\* owner.earned_points += self.game.attack_pos(attacker, posx, posy)
\* (the call and its effect are also recorded in calls)
\* (credit_attack_dropped: the call with its return value dropped)
credit_attack_dropped(w, owner, attacker, posx, posy) ==
    LET r  == attack_pos(w, attacker, posx, posy)
        w1 == r.w
    IN  [w1 EXCEPT !.calls =
            Append(@, [attacker |-> attacker, owner |-> owner,
                       posx |-> posx, posy |-> posy, ret |-> r.ret,
                       before |-> [pieces |-> w.pieces, points |-> w.points,
                                   event_queue |-> w.event_queue,
                                   facilities |-> w.facilities],
                       after |-> [pieces |-> w1.pieces, points |-> w1.points,
                                  event_queue |-> w1.event_queue,
                                  facilities |-> w1.facilities]])]
credit_attack(w, owner, attacker, posx, posy) ==
    LET r  == attack_pos(w, attacker, posx, posy)
        w1 == [r.w EXCEPT !.facilities[owner].earned_points = @ + r.ret]
    IN  [w1 EXCEPT !.calls =
            Append(@, [attacker |-> attacker, owner |-> owner,
                       posx |-> posx, posy |-> posy, ret |-> r.ret,
                       before |-> [pieces |-> w.pieces, points |-> w.points,
                                   event_queue |-> w.event_queue,
                                   facilities |-> w.facilities],
                       after |-> [pieces |-> w1.pieces, points |-> w1.points,
                                  event_queue |-> w1.event_queue,
                                  facilities |-> w1.facilities]])]

\* one coordinate of GameEngine.wrap_pos
\* (wrap_no_shift: the expression without the final "- self.size")
wrap_no_shift(pos) == (((pos + size) % width) + width) % width
wrap(pos) == ((((pos + size) % width) + width) % width) - size

\* GameEngine.wrap_pos
wrap_pos(posx, posy) == <<wrap(posx), wrap(posy)>>

\* self.posx, self.posy = self.game.wrap_pos(x, y)  (the call is recorded in wraps)
\* (move_unwrapped: the assignment without the call of wrap_pos)
move_unwrapped(w, p, x, y) ==
    [w EXCEPT !.pieces[p].posx = x, !.pieces[p].posy = y,
              !.wraps = Append(@, [posx |-> x, posy |-> y, new |-> <<x, y>>])]
move_wrapped(w, p, x, y) ==
    LET to == wrap_pos(x, y)
    IN  [w EXCEPT !.pieces[p].posx = to[1], !.pieces[p].posy = to[2],
                  !.wraps = Append(@, [posx |-> x, posy |-> y, new |-> to])]

\* GameEngine.random_pos
random_pos == randint(-size, size) \X randint(-size, size)

\* Facility.active
\* (active_nonnegative: ">=" in place of ">")
active_nonnegative(f) == f.resources >= 0
active(f) == f.resources > 0

----------------------------------------------------------------------------
(* Configurations handed to setup() *)

\* Piece.__init__ / Target.__init__ / RWTarget.__init__ / Helicopter.__init__
Target(posx, posy, pts) ==
    [kind |-> "Target", posx |-> posx, posy |-> posy, active |-> TRUE,
     target |-> TRUE, runnable |-> FALSE, points |-> pts, speed |-> 0, parent |-> 0]
RWTarget(posx, posy, pts, speed) ==
    [kind |-> "RWTarget", posx |-> posx, posy |-> posy, active |-> TRUE,
     target |-> TRUE, runnable |-> TRUE, points |-> pts, speed |-> speed, parent |-> 0]
Helicopter(posx, posy, speed, parent) ==
    [kind |-> "Helicopter", posx |-> posx, posy |-> posy, active |-> TRUE,
     target |-> FALSE, runnable |-> TRUE, points |-> 0, speed |-> speed,
     parent |-> parent]

\* hasattr(piece, 'points')
\* (has_points_moving: only the RWTarget is counted)
has_points_moving(piece) == piece.kind = "RWTarget"
has_points(piece) == piece.kind \in {"Target", "RWTarget"}

\* Facility.__init__ and the subclasses' __init__
Facility(kind, resources) ==
    [kind |-> kind, resources |-> resources, earned_points |-> 0, current_stratum |-> 0]

\* start cells <<RWTarget, Target>> of the configured pieces: a shared cell, two
\* mirrored corners (one on the far edge), a far-edge cell and two neighbours
StartCells ==
    {<< <<0, 0>>, <<0, 0>> >>,
     << <<-size, -size>>, <<size, size>> >>,
     << <<size, 0>>, <<0, -size>> >>,
     << <<0, -1>>, <<-1, -1>> >>}

\* resources of (Artillery 1, Helipad 2, ReconPlane 3): the three baseline
\* conditions of run_baseline_experiment and an allocation above the limit
Allocations ==
    {<<50, 0, 0>>, <<0, 50, 0>>, <<0, 0, 50>>, <<30, 20, 10>>}

ArtilleryId == 1
HelipadId == 2
ReconPlaneId == 3

\* an allocation with a negative entry whose sum is the limit
Overdrawn == <<resource_limit + 10, -10, 0>>

\* what setup() is handed, <<start cells, allocation, id of the static Target>>:
\* the ids of main; with the helipad alone, a registry whose static Target has
\* the id next_piece_id hands out first; and the overdrawn allocation
Configurations ==
    {<<at, alloc, TargetId>> : at \in StartCells, alloc \in Allocations}
    \cup {<< << <<0, -1>>, <<-1, -1>> >>, <<0, 50, 0>>, FirstPieceId>>}
    \cup {<< << <<0, 0>>, <<0, 0>> >>, Overdrawn, TargetId>>}

----------------------------------------------------------------------------
(* GameEngine *)

\* the runs whose whole log is followed in event_log: those without a helipad (for
\* the others event_queue and logged stand for the log)
LogFollowed == ~active(facilities[HelipadId])

Commit(w) ==
    /\ pieces' = w.pieces
    /\ piece_keys' = w.piece_keys
    /\ points' = w.points
    /\ event_queue' = w.event_queue
    /\ logged' = (logged \/ event_queue # << >>)
    /\ event_log' = IF LogFollowed THEN event_log \o w.event_queue ELSE event_log
    /\ facilities' = w.facilities
    /\ calls' = w.calls
    /\ wraps' = w.wraps

\* GameEngine.__init__
Constructed ==
    /\ set_up = "missing"
    /\ phase = "idle"
    /\ error = "none"
    /\ now = 0
    /\ points = 0
    /\ possible_points = 0
    /\ pieces = << >>
    /\ piece_keys = << >>
    /\ facilities = << >>
    /\ next_piece = FirstPieceId
    /\ handed = << >>
    /\ event_queue = << >>
    /\ logged = FALSE
    /\ event_log = << >>
    /\ queue = << >>
    /\ piece_generators = << >>
    /\ facility_generators = << >>
    /\ terminated = {}
    /\ calls = << >>
    /\ wraps = << >>
    /\ stats = << >>

\* an engine that emits every event (no simulation_mode: Facility.sim is False)
Init == simulation_mode = FALSE /\ Constructed

\* GameEngine(..., simulation_mode=True), as build_game constructs it
SimInit == simulation_mode = TRUE /\ Constructed

\* GameEngine.setup
setup ==
    /\ phase = "idle"
    /\ set_up = "missing"
    /\ \E c \in Configurations :
         LET at == c[1]
             alloc == c[2]
             static == c[3]
         IN
         /\ pieces' = (RWId :> RWTarget(at[1][1], at[1][2], RWPoints, RWSpeed))
                      @@ (static :> Target(at[2][1], at[2][2], TargetPoints))
         /\ piece_keys' = <<RWId, static>>
         /\ facilities' = (ArtilleryId :> Facility("Artillery", alloc[1]))
                          @@ (HelipadId :> Facility("Helipad", alloc[2]))
                          @@ (ReconPlaneId :> Facility("ReconPlane", alloc[3]))
    /\ points' = 0
    /\ set_up' = "true"
    /\ UNCHANGED <<simulation_mode, phase, error, now, possible_points, next_piece, handed,
                   event_queue, logged, event_log, queue,
                   piece_generators, facility_generators, terminated, calls, wraps,
                   stats>>

RECURSIVE SumSeq(_, _)
SumSeq(f, keys) ==
    IF keys = << >> THEN 0 ELSE f[Head(keys)] + SumSeq(f, Tail(keys))

\* facility ids in the order of the facilities dict
facility_keys == <<ArtilleryId, HelipadId, ReconPlaneId>>

\* total_cost = sum(f.resources for f in self.facilities.values())
\* (total_cost_largest: max in place of sum)
total_cost_largest ==
    LET r == {facilities[f].resources : f \in DOMAIN facilities}
    IN  CHOOSE m \in r : \A n \in r : n <= m
total_cost == SumSeq([f \in DOMAIN facilities |-> facilities[f].resources], facility_keys)

\* run() on an engine without the set_up attribute: reading it raises
run_not_set_up ==
    /\ phase = "idle"
    /\ set_up = "missing"
    /\ phase' = "failed"
    /\ error' = "AttributeError"
    /\ UNCHANGED <<simulation_mode, set_up, now, points, possible_points, pieces, piece_keys, facilities,
                   next_piece, handed, event_queue, logged, event_log, queue, piece_generators,
                   facility_generators, terminated, calls, wraps, stats>>

\* run(): the resource check fails
run_over_limit ==
    /\ phase = "idle"
    /\ set_up = "true"
    /\ total_cost > resource_limit
    /\ phase' = "failed"
    /\ error' = "ValueError"
    /\ piece_generators' = << >>
    /\ facility_generators' = << >>
    /\ possible_points' = 0
    /\ UNCHANGED <<simulation_mode, set_up, now, points, pieces, piece_keys, facilities, next_piece, handed,
                   event_queue, logged, event_log, queue, terminated, calls, wraps, stats>>

\* the runnable pieces, in registry order
runnable_keys == SelectSeq(piece_keys, LAMBDA p : pieces[p].runnable)
\* the active facilities, in registry order
active_keys == SelectSeq(facility_keys, LAMBDA f : active(facilities[f]))

RECURSIVE process_all(_, _, _)
process_all(q, t, procs) ==
    IF procs = << >> THEN q
    ELSE process_all(process(q, t, Head(procs)), t, Tail(procs))

\* the processes of the pieces / facilities keys, in order
PieceProcs(keys) == [i \in 1 .. Len(keys) |-> PieceProc(keys[i])]
FacilityProcs(keys) == [i \in 1 .. Len(keys) |-> FacilityProc(keys[i])]

\* run(): schedule the processes; env.run(until=100) then takes the steps below
run_start ==
    /\ phase = "idle"
    /\ set_up = "true"
    /\ total_cost <= resource_limit
    /\ piece_generators' = PieceProcs(runnable_keys)
    /\ facility_generators' = FacilityProcs(active_keys)
    /\ possible_points' =
         SumSeq([p \in DOMAIN pieces |-> pieces[p].points],
                SelectSeq(piece_keys, LAMBDA p : has_points(pieces[p])))
    /\ queue' = process_all(queue, now,
                    PieceProcs(runnable_keys) \o FacilityProcs(active_keys)
                    \o <<WatcherProc>>)
    /\ phase' = "running"
    /\ UNCHANGED <<simulation_mode, set_up, error, now, points, pieces, piece_keys, facilities,
                   next_piece, handed, event_queue, logged, event_log, terminated, calls, wraps, stats>>

----------------------------------------------------------------------------
(* env.run(until=Horizon): one action per kind of event taken from the heap *)

\* the event env.step() pops next; the until event stops the run before any
\* timeout of the horizon's own instant
Running == phase = "running" /\ queue # << >> /\ Head(queue).time < Horizon

Next_is(kind, procKind) ==
    /\ Running
    /\ Head(queue).kind = kind
    /\ Head(queue).proc[1] = procKind

\* an exception leaves the process and, nobody waiting for it, env.run() and run()
Raise(exc) ==
    /\ phase' = "failed"
    /\ error' = exc

\* a piece process starts: "while self.active" and the first timeout
start_piece ==
    /\ Next_is("init", "piece")
    /\ LET e == Head(queue)
           p == e.proc[2]
       IN  /\ now' = e.time
           /\ IF pieces[p].active
              THEN /\ queue' = timeout(Tail(queue), e.time, e.proc, pieces[p].speed)
                   /\ UNCHANGED terminated
              ELSE /\ queue' = Tail(queue)
                   /\ terminated' = terminated \cup {e.proc}
           /\ Commit(World(e.time))
    /\ UNCHANGED <<simulation_mode, set_up, phase, error, possible_points, next_piece,
                   handed, piece_generators, facility_generators, stats>>

\* self.rate of a facility
rate(f) == IF f.kind = "ReconPlane" THEN 1 ELSE f.resources

\* a facility process starts: the first exponential wait (1/self.rate)
start_facility ==
    /\ Next_is("init", "facility")
    /\ LET e == Head(queue)
           f == e.proc[2]
       IN  /\ now' = e.time
           /\ IF rate(facilities[f]) = 0
              THEN /\ Raise("ZeroDivisionError")
                   /\ queue' = Tail(queue)
              ELSE /\ \E next \in exponential(e.time) :
                        queue' = timeout(Tail(queue), e.time, e.proc, next)
                   /\ UNCHANGED <<phase, error>>
           /\ Commit(World(e.time))
    /\ UNCHANGED <<simulation_mode, set_up, possible_points, next_piece, handed,
                   piece_generators, facility_generators, terminated, stats>>

\* yield self.env.timeout(1) of endgame_check, reached at time t
\* (next_check_late: a wait of two units)
next_check_late(q, t) == timeout(q, t, WatcherProc, 2 * CheckInterval)
next_check(q, t) == timeout(q, t, WatcherProc, CheckInterval)

\* endgame_check starts: its first timeout(1)
start_watcher ==
    /\ Next_is("init", "watcher")
    /\ LET e == Head(queue)
       IN  /\ now' = e.time
           /\ queue' = next_check(Tail(queue), e.time)
           /\ Commit(World(e.time))
    /\ UNCHANGED <<simulation_mode, set_up, phase, error, possible_points, next_piece,
                   handed, piece_generators, facility_generators, terminated, stats>>

\* the unit step of RWTarget.run for a drawn direction, before wrap_pos
rw_step(posx, posy, direction) ==
    LET x1 == IF direction = 0 THEN posx + 1
              ELSE IF direction = 1 THEN posx - 1 ELSE posx
        y1 == IF direction = 2 THEN posy + 1
              ELSE IF direction = 3 THEN posy - 1 ELSE posy
        x2 == IF x1 < -size THEN size ELSE x1
        x3 == IF x2 > size THEN -size ELSE x2
    IN  <<x3, y1>>

\* "if not self.active: break" after the wait of RWTarget.run: whether the loop goes on
\* (resumes_always: the loop without that test)
resumes_always(piece) == TRUE
resumes(piece) == piece.active

\* the body of RWTarget.run's loop after the wait, for a drawn direction
RWTarget_step(w, p, direction) ==
    LET to == rw_step(w.pieces[p].posx, w.pieces[p].posy, direction)
        w1 == move_wrapped(w, p, to[1], to[2])
    IN  emit(w1, PieceActor(w1, p),
             <<"moved to", w1.pieces[p].posx, w1.pieces[p].posy>>)

\* RWTarget.run resumes after its timeout
RWTarget_run ==
    /\ Next_is("timeout", "piece")
    /\ pieces[Head(queue).proc[2]].kind = "RWTarget"
    /\ LET e == Head(queue)
           p == e.proc[2]
           w == World(e.time)
       IN  /\ now' = e.time
           /\ IF ~resumes(pieces[p])
              THEN /\ queue' = Tail(queue)
                   /\ terminated' = terminated \cup {e.proc}
                   /\ Commit(w)
              ELSE \E direction \in randint(0, 3) :
                         /\ Commit(RWTarget_step(w, p, direction))
                         /\ queue' = timeout(Tail(queue), e.time, e.proc,
                                             pieces[p].speed)
                         /\ UNCHANGED terminated
    /\ UNCHANGED <<simulation_mode, set_up, phase, error, possible_points, next_piece,
                   handed, piece_generators, facility_generators, stats>>

\* the rounded Levy jump (j_x, j_y): the length is at least 1, so never (0, 0);
\* the unit jumps along each axis and a long jump along each diagonal are followed
LevyJumps ==
    {<<1, 0>>, <<-1, 0>>, <<0, 1>>, <<0, -1>>,
     <<MaxJump, MaxJump>>, <<-MaxJump, -MaxJump>>, <<MaxJump, -MaxJump>>}

\* the body of Helicopter.run's loop after the wait, for a drawn jump
Helicopter_step(w, p, j) ==
    LET w1 == move_wrapped(w, p, w.pieces[p].posx + j[1], w.pieces[p].posy + j[2])
        w2 == emit(w1, PieceActor(w1, p),
                   <<"moved to", w1.pieces[p].posx, w1.pieces[p].posy>>)
    IN  credit_attack(w2, w.pieces[p].parent, PieceActor(w2, p),
                      w2.pieces[p].posx, w2.pieces[p].posy)

\* Helicopter.run resumes after its timeout
Helicopter_run ==
    /\ Next_is("timeout", "piece")
    /\ pieces[Head(queue).proc[2]].kind = "Helicopter"
    /\ LET e == Head(queue)
           p == e.proc[2]
           w == World(e.time)
       IN  /\ now' = e.time
           /\ IF ~pieces[p].active
              THEN /\ queue' = Tail(queue)
                   /\ terminated' = terminated \cup {e.proc}
                   /\ Commit(w)
              ELSE \E j \in LevyJumps :
                         /\ Commit(Helicopter_step(w, p, j))
                         /\ queue' = timeout(Tail(queue), e.time, e.proc,
                                             pieces[p].speed)
                         /\ UNCHANGED terminated
    /\ UNCHANGED <<simulation_mode, set_up, phase, error, possible_points, next_piece,
                   handed, piece_generators, facility_generators, stats>>

\* the body of Artillery.run's loop after the wait, for a drawn position: a shot
\* and its antithetic shot
Artillery_step(w, f, pos) ==
    LET me == FacilityActor(w, f)
        w1 == event(w, me, <<"fired at", pos[1], pos[2]>>)
        w2 == credit_attack(w1, f, me, pos[1], pos[2])
        ax == -pos[1]
        ay == -pos[2]
        w3 == emit(w2, me, <<"fired (antithetic) at", ax, ay>>)
    IN  credit_attack(w3, f, me, ax, ay)

\* Artillery.run resumes after its timeout
Artillery_run ==
    /\ Next_is("timeout", "facility")
    /\ facilities[Head(queue).proc[2]].kind = "Artillery"
    /\ LET e == Head(queue)
           f == e.proc[2]
           w == World(e.time)
       IN  /\ now' = e.time
           /\ \E pos \in random_pos, next \in exponential(e.time) :
                    /\ Commit(Artillery_step(w, f, pos))
                    /\ queue' = timeout(Tail(queue), e.time, e.proc, next)
    /\ UNCHANGED <<simulation_mode, set_up, phase, error, possible_points, next_piece,
                   handed, piece_generators, facility_generators, terminated, stats>>

\* GameEngine.next_piece_id on the counter n: the counter after the call and the id
\* returned
\* (next_piece_id_stuck: the call without "self.next_piece += 1")
next_piece_id_stuck(n) == [next |-> n, ret |-> n]
next_piece_id(n) == [next |-> n + 1, ret |-> (n + 1) - 1]

\* GameEngine.add_piece up to the test of runnable: the registry after the call and
\* whether it raised
\* (add_piece_overwrite: the call without the test of the id)
add_piece_overwrite(w, id, piece) ==
    [w |-> [w EXCEPT !.pieces = [q \in DOMAIN @ \cup {id} |->
                                    IF q = id THEN piece ELSE @[q]],
                     !.piece_keys = IF id \in DOMAIN w.pieces THEN @ ELSE Append(@, id)],
     raised |-> FALSE]
add_piece(w, id, piece) ==
    IF id \in DOMAIN w.pieces
    THEN [w |-> w, raised |-> TRUE]
    ELSE [w |-> [w EXCEPT !.pieces = (id :> piece) @@ @, !.piece_keys = Append(@, id)],
          raised |-> FALSE]

\* the body of Helipad.run's loop after the wait, for a drawn position and the id
\* next_piece_id returned: the Helicopter h, add_piece up to the test of runnable,
\* and the spawn event unless add_piece raised
Helipad_step(w, f, id, pos) ==
    LET h == Helicopter(pos[1], pos[2], HelicopterSpeed, f)
        r == add_piece(w, id, h)
    IN  [h |-> h, raised |-> r.raised,
         w |-> IF r.raised THEN r.w
               ELSE emit(r.w, FacilityActor(r.w, f),
                         <<"spawned Helicopter", id, pos[1], pos[2]>>)]

\* Helipad.run resumes after its timeout: random_pos, next_piece_id, Helicopter,
\* add_piece (which starts the process of a runnable piece) and the spawn event
Helipad_run ==
    /\ Next_is("timeout", "facility")
    /\ facilities[Head(queue).proc[2]].kind = "Helipad"
    /\ LET e == Head(queue)
           f == e.proc[2]
           fresh == next_piece_id(next_piece)
           id == fresh.ret
           w == World(e.time)
       IN  /\ Len(handed) < MaxHelicopters
           /\ now' = e.time
           /\ next_piece' = fresh.next
           /\ handed' = Append(handed, id)
           /\ \E pos \in random_pos, next \in exponential(e.time) :
                LET r == Helipad_step(w, f, id, pos)
                    h == r.h
                IN  IF r.raised
                    THEN /\ Raise("ValueError")
                         /\ queue' = Tail(queue)
                         /\ Commit(r.w)
                         /\ UNCHANGED piece_generators
                    ELSE /\ Commit(r.w)
                         /\ piece_generators' =
                              IF h.runnable THEN Append(piece_generators, PieceProc(id))
                              ELSE piece_generators
                         /\ queue' =
                              timeout(IF h.runnable
                                      THEN process(Tail(queue), e.time, PieceProc(id))
                                      ELSE Tail(queue),
                                      e.time, e.proc, next)
                         /\ UNCHANGED <<phase, error>>
    /\ UNCHANGED <<simulation_mode, set_up, possible_points, facility_generators, terminated, stats>>

\* band_height = int((2 * self.game.size) / self.n_strata), for a board of half-width
\* sz and n strata
band_height(sz, n) == (2 * sz) \div n

\* y_min and y_max of stratum s
y_min(sz, n, s) == -sz + s * band_height(sz, n)
y_max(sz, n, s) == y_min(sz, n, s) + band_height(sz, n)

\* scan_y = rand.randint(int(y_min), int(y_max) + 1): the rows stratum s can scan
\* (scan_rows_inclusive: randint taken to include its upper bound)
scan_rows_inclusive(sz, n, s) == y_min(sz, n, s) .. (y_max(sz, n, s) + 1)
scan_rows(sz, n, s) == randint(y_min(sz, n, s), y_max(sz, n, s) + 1)

\* the columns a scan attacks: r < sample_rate for each column, r uniform in [0, 1),
\* sample_rate = resources * 0.02
sampled_columns(f) ==
    IF f.resources * 2 >= 100 THEN {(-size) .. size} ELSE SUBSET ((-size) .. size)

\* the loop "for i in range(-size, size + 1)" of ReconPlane.run from column i on
RECURSIVE scan_loop(_, _, _, _, _)
scan_loop(w, f, i, cols, scan_y) ==
    IF i > size THEN w
    ELSE IF i \in cols
         THEN LET me == FacilityActor(w, f)
                  w1 == event(w, me, <<"attacked", i, scan_y>>)
                  w2 == credit_attack(w1, f, me, i, scan_y)
              IN  scan_loop(w2, f, i + 1, cols, scan_y)
         ELSE scan_loop(w, f, i + 1, cols, scan_y)

\* the body of ReconPlane.run's loop after the wait, for a drawn row and drawn
\* columns: the stratum index advances, then the scan
ReconPlane_step(w, f, scan_y, cols) ==
    LET s == w.facilities[f].current_stratum
        w1 == [w EXCEPT !.facilities[f].current_stratum = (s + 1) % n_strata]
        w2 == emit(w1, FacilityActor(w1, f), <<"began scanning", scan_y>>)
    IN  scan_loop(w2, f, -size, cols, scan_y)

\* ReconPlane.run resumes after its timeout: one scan of the next stratum
ReconPlane_run ==
    /\ Next_is("timeout", "facility")
    /\ facilities[Head(queue).proc[2]].kind = "ReconPlane"
    /\ LET e == Head(queue)
           f == e.proc[2]
           w == World(e.time)
           s == facilities[f].current_stratum
       IN  /\ now' = e.time
           /\ \E scan_y \in scan_rows(size, n_strata, s),
                 cols \in sampled_columns(facilities[f]),
                 next_t \in exponential(e.time) :
                    /\ Commit(ReconPlane_step(w, f, scan_y, cols))
                    /\ queue' = timeout(Tail(queue), e.time, e.proc, next_t)
    /\ UNCHANGED <<simulation_mode, set_up, phase, error, possible_points, next_piece,
                   handed, piece_generators, facility_generators, terminated, stats>>

\* the interrupt() calls of endgame_check over gens, in order, up to the first
\* process that has terminated (Process.interrupt raises RuntimeError for it)
RECURSIVE interrupt_all(_, _, _)
interrupt_all(q, t, gens) ==
    IF gens = << >> THEN [queue |-> q, ok |-> TRUE]
    ELSE IF Head(gens) \in terminated THEN [queue |-> q, ok |-> FALSE]
         ELSE interrupt_all(interrupt(q, t, Head(gens)), t, Tail(gens))

\* GameEngine.endgame_check resumes after its timeout(1)
endgame_check ==
    /\ Next_is("timeout", "watcher")
    /\ LET e == Head(queue)
           active_target == \E p \in DOMAIN pieces : pieces[p].target /\ pieces[p].active
           r == interrupt_all(Tail(queue), e.time,
                              facility_generators \o piece_generators)
       IN  /\ now' = e.time
           /\ IF active_target
              THEN /\ queue' = next_check(Tail(queue), e.time)
                   /\ UNCHANGED <<phase, error, terminated>>
              ELSE /\ queue' = r.queue
                   /\ terminated' = terminated \cup {e.proc}
                   /\ IF r.ok THEN UNCHANGED <<phase, error>> ELSE Raise("RuntimeError")
           /\ Commit(World(e.time))
    /\ UNCHANGED <<simulation_mode, set_up, possible_points, next_piece, handed,
                   piece_generators, facility_generators, stats>>

\* an Interruption is delivered: the process drops its pending timeout, its
\* generator catches simpy.Interrupt and breaks out of its loop
interrupted ==
    /\ Running
    /\ Head(queue).kind = "interrupt"
    /\ LET e == Head(queue)
       IN  /\ now' = e.time
           /\ IF e.proc \in terminated
              THEN /\ queue' = Tail(queue)
                   /\ UNCHANGED terminated
              ELSE /\ queue' = without(Tail(queue), e.proc)
                   /\ terminated' = terminated \cup {e.proc}
           /\ Commit(World(e.time))
    /\ UNCHANGED <<simulation_mode, set_up, phase, error, possible_points, next_piece,
                   handed, piece_generators, facility_generators, stats>>

\* Facility.print_stats: earned_points / resources
print_stats(f) == <<f.earned_points, f.resources>>

\* env.run returns at the horizon; run() prints the statistics of the active
\* facilities (print_stats prints nothing in simulation mode)
run_end ==
    /\ phase = "running"
    /\ ~Running
    /\ now' = Horizon
    /\ LET shown == IF simulation_mode THEN {}
                    ELSE {f \in DOMAIN facilities : active(facilities[f])}
       IN  IF \E f \in shown : facilities[f].resources = 0
           THEN /\ Raise("ZeroDivisionError")
                /\ UNCHANGED stats
           ELSE /\ stats' = [f \in shown |-> print_stats(facilities[f])]
                /\ phase' = "done"
                /\ UNCHANGED error
    /\ Commit(World(Horizon))
    /\ UNCHANGED <<simulation_mode, set_up, possible_points,
                   next_piece, handed, queue, piece_generators,
                   facility_generators, terminated>>

Next ==
    \/ setup
    \/ run_not_set_up
    \/ run_over_limit
    \/ run_start
    \/ start_piece
    \/ start_facility
    \/ start_watcher
    \/ RWTarget_run
    \/ Helicopter_run
    \/ Artillery_run
    \/ Helipad_run
    \/ ReconPlane_run
    \/ endgame_check
    \/ interrupted
    \/ run_end

Spec == Init /\ [][Next]_vars

\* the same engine run in simulation mode
SimSpec == SimInit /\ [][Next]_vars

----------------------------------------------------------------------------
(* next_piece_id called on the constructed engine, any number of times *)

next_piece_id_call ==
    /\ Len(handed) < MaxCalls
    /\ next_piece' = next_piece_id(next_piece).next
    /\ handed' = Append(handed, next_piece_id(next_piece).ret)
    /\ UNCHANGED <<simulation_mode, set_up, phase, error, now, points, possible_points, pieces, piece_keys,
                   facilities, event_queue, logged, event_log, queue, piece_generators,
                   facility_generators, terminated, calls, wraps, stats>>

IdNext == next_piece_id_call

IdSpec == Init /\ [][IdNext]_vars

----------------------------------------------------------------------------
(* Properties *)

RECURSIVE SumOver(_, _)
SumOver(S, f) ==
    IF S = {} THEN 0
    ELSE LET x == CHOOSE y \in S : TRUE IN f[x] + SumOver(S \ {x}, f)

Board == (-size) .. size

\* the pieces are as setup() registered them: on a start cell, active
AsSetUp ==
    /\ DOMAIN pieces = {RWId, TargetId}
    /\ \A p \in DOMAIN pieces : pieces[p].active
    /\ \E at \in StartCells :
         /\ <<pieces[RWId].posx, pieces[RWId].posy>> = at[1]
         /\ <<pieces[TargetId].posx, pieces[TargetId].posy>> = at[2]

\* the sum of resources over the three registered facilities is above the limit
OverLimit ==
    /\ set_up = "true"
    /\ facilities[ArtilleryId].resources + facilities[HelipadId].resources
         + facilities[ReconPlaneId].resources > resource_limit

\* C1: when the resources of the registered facilities sum to more than
\* resource_limit, run() can only fail with the budget error, and no process was
\* started: the heap and both generator lists are empty, time is 0, no event was
\* ever logged, every piece is active on its start cell and points is the 0 that
\* setup() stored.
C1_OverLimitRunsNothing ==
    OverLimit =>
        /\ phase \in {"idle", "failed"}
        /\ phase = "failed" => error = "ValueError"
        /\ queue = << >>
        /\ piece_generators = << >>
        /\ facility_generators = << >>
        /\ terminated = {}
        /\ now = 0
        /\ event_queue = << >>
        /\ ~logged
        /\ AsSetUp
        /\ points = 0
        /\ \A f \in DOMAIN facilities : facilities[f].earned_points = 0

\* run() has failed on an allocation above the limit
C1_Witness == OverLimit /\ phase = "failed" /\ error = "ValueError"

\* C2 (as claimed): run() on an engine that was never set up fails with the
\* RuntimeError that names setup().
C2_NotConfiguredIsRuntimeError ==
    (phase = "failed" /\ set_up = "missing") => error = "RuntimeError"

\* C3: the running total never exceeds possible_points.
C3_PointsAtMostPossible == points <= possible_points

\* one attack destroyed two targets sharing a cell and the total reached
\* possible_points
C3_Witness ==
    /\ phase = "running"
    /\ points = possible_points
    /\ \E i \in 1 .. Len(calls) : calls[i].ret = RWPoints + TargetPoints

\* the active targets an attack_pos call found on its cell
Victims(c) ==
    {p \in DOMAIN c.before.pieces :
        /\ c.before.pieces[p].posx = c.posx
        /\ c.before.pieces[p].posy = c.posy
        /\ c.before.pieces[p].active
        /\ c.before.pieces[p].target}

\* the events a call appended
Appended(c) ==
    SubSeq(c.after.event_queue, Len(c.before.event_queue) + 1,
           Len(c.after.event_queue))

\* C5: every attack_pos call deactivates exactly the active targets on its cell and
\* changes no other piece, adds their points to the total, returns that sum, and
\* appends one 'destroyed by <attacker>' event per such target and nothing else.
C5_AttackDestroysAllOnCell ==
    \A i \in 1 .. Len(calls) :
        LET c == calls[i]
            sum == SumOver(Victims(c), [p \in DOMAIN c.before.pieces |->
                                            c.before.pieces[p].points])
        IN  /\ DOMAIN c.after.pieces = DOMAIN c.before.pieces
            /\ \A p \in DOMAIN c.before.pieces :
                 c.after.pieces[p] =
                    IF p \in Victims(c) THEN [c.before.pieces[p] EXCEPT !.active = FALSE]
                    ELSE c.before.pieces[p]
            /\ c.after.points = c.before.points + sum
            /\ c.ret = sum
            /\ SubSeq(c.after.event_queue, 1, Len(c.before.event_queue))
                 = c.before.event_queue
            /\ Len(Appended(c)) = Cardinality(Victims(c))
            /\ \A p \in Victims(c) :
                 \E k \in 1 .. Len(Appended(c)) :
                    /\ Appended(c)[k].piece = <<c.before.pieces[p].kind, p>>
                    /\ Appended(c)[k].msg = <<"destroyed by", c.attacker>>

\* an attack found two active targets on its cell
C5_Witness == \E i \in 1 .. Len(calls) : Cardinality(Victims(calls[i])) = 2

\* C6: an attack_pos call on a cell without an active target returns 0 and leaves
\* the pieces, points, the event log and every facility's earned_points as they were.
C6_MissChangesNothing ==
    \A i \in 1 .. Len(calls) :
        Victims(calls[i]) = {} =>
            /\ calls[i].ret = 0
            /\ calls[i].after = calls[i].before

\* an attack on a cell that holds only a destroyed target
C6_Witness ==
    \E i \in 1 .. Len(calls) :
        /\ Victims(calls[i]) = {}
        /\ \E p \in DOMAIN calls[i].before.pieces :
             /\ calls[i].before.pieces[p].posx = calls[i].posx
             /\ calls[i].before.pieces[p].posy = calls[i].posy
             /\ calls[i].before.pieces[p].target
             /\ ~calls[i].before.pieces[p].active

\* coordinates up to three board widths off the board
Far == (-size - 3 * width) .. (size + 3 * width)

\* C7: wrap_pos returns coordinates within [-size, size] and is idempotent, for
\* every call a piece makes during a run and, on the engine as constructed (wrap_pos
\* reads only size and width, which __init__ fixes), for every pair up to three
\* widths off the board.
C7_WrapInRangeIdempotent ==
    /\ \A i \in 1 .. Len(wraps) :
         /\ wraps[i].new \in Board \X Board
         /\ wrap_pos(wraps[i].new[1], wraps[i].new[2]) = wraps[i].new
    /\ (phase = "idle" /\ set_up = "missing") =>
         \A x \in Far, y \in Far :
            /\ wrap_pos(x, y) \in Board \X Board
            /\ wrap_pos(wrap_pos(x, y)[1], wrap_pos(x, y)[2]) = wrap_pos(x, y)

\* a piece called wrap_pos with a coordinate off the board
C7_Witness ==
    \E i \in 1 .. Len(wraps) : wraps[i].posx \notin Board \/ wraps[i].posy \notin Board

\* the wraparound of the claim on one axis
ModularOnAxis(in, out) ==
    /\ in = size + 1 => out = -size
    /\ in = -size - 1 => out = size
    /\ in \in Board => out = in

\* C8 (as claimed): wrap_pos is wraparound over 2*size+1 cells per axis: size+1 goes
\* to -size, -size-1 goes to size, every coordinate of [-size, size] to itself.
C8_WrapIsModularOverBoard ==
    \A i \in 1 .. Len(wraps) :
        /\ ModularOnAxis(wraps[i].posx, wraps[i].new[1])
        /\ ModularOnAxis(wraps[i].posy, wraps[i].new[2])

\* C9: every registered piece is on the board.
C9_PiecesOnBoard ==
    \A p \in DOMAIN pieces : pieces[p].posx \in Board /\ pieces[p].posy \in Board

\* a helicopter spawned during the run has jumped across an edge
C9_Witness ==
    /\ \E p \in DOMAIN pieces : pieces[p].kind = "Helicopter"
    /\ \E i \in 1 .. Len(wraps) : wraps[i].posx \notin Board \/ wraps[i].posy \notin Board

\* C10: a facility with resources 0 has no process and no wake-up, is the actor of
\* no event and the owner of no attack, keeps earned_points 0 and has no line in
\* the statistics printed at the end.
C10_ZeroResourcesNeverRuns ==
    \A f \in DOMAIN facilities :
        facilities[f].resources = 0 =>
            /\ \A i \in 1 .. Len(facility_generators) :
                 facility_generators[i] # FacilityProc(f)
            /\ \A i \in 1 .. Len(queue) : queue[i].proc # FacilityProc(f)
            /\ FacilityProc(f) \notin terminated
            /\ \A i \in 1 .. Len(event_queue) :
                 event_queue[i].piece # <<facilities[f].kind, f>>
            /\ \A i \in 1 .. Len(calls) : calls[i].owner # f
            /\ facilities[f].earned_points = 0
            /\ facilities[f].current_stratum = 0
            /\ f \notin DOMAIN stats

\* a run with two facilities without resources has ended and printed statistics
C10_Witness ==
    /\ phase = "done"
    /\ stats # << >>
    /\ \E f \in DOMAIN facilities : facilities[f].resources = 0

\* the watcher has found no active target, made its interrupt() calls and left its loop
WatcherFired == WatcherProc \in terminated

\* C11 (as claimed): whenever the watcher finds no active target, its interrupts go
\* through and the run does not fail, also when a piece process has already ended
\* on its own.
C11_ShutdownCompletes == WatcherFired => (phase # "failed" /\ error = "none")

\* what the steps of the pieces and facilities act on
Effects == <<pieces, piece_keys, points, facilities, next_piece, piece_generators>>

\* C12: after the watcher has made its interrupts, no step changes a piece, the
\* registry, points, a facility's earned_points or the id counter, and no step
\* appends an event, attacks a cell or moves a piece.
C12_NothingAfterShutdown ==
    [][WatcherFired =>
          /\ Effects' = Effects
          /\ event_queue' = << >>
          /\ calls' = << >>
          /\ wraps' = << >>]_vars

\* the watcher fired, its interrupts were delivered and run() has returned
C12_Witness ==
    /\ WatcherFired
    /\ phase = "done"
    /\ \E f \in DOMAIN facilities : FacilityProc(f) \in terminated
    /\ \E p \in DOMAIN pieces : PieceProc(p) \in terminated

NoActiveTarget == \A p \in DOMAIN pieces : ~(pieces[p].target /\ pieces[p].active)

\* the processes the watcher interrupts, in its order
Generators == facility_generators \o piece_generators

C14_GameOverEventLogged ==
    [][(~WatcherFired /\ WatcherFired') =>
          /\ event_queue' # << >>
          /\ event_queue'[Len(event_queue')].msg[1] \in {"all targets destroyed",
                                                         "game over"}]_vars

\* the Helipad resumes next: its step calls add_piece with the id next_piece
HelipadNext ==
    /\ Running
    /\ Head(queue).kind = "timeout"
    /\ Head(queue).proc[1] = "facility"
    /\ facilities[Head(queue).proc[2]].kind = "Helipad"

\* the process of a spawned Helicopter starts next
HelicopterStarts ==
    /\ Running
    /\ Head(queue).kind = "init"
    /\ Head(queue).proc[1] = "piece"
    /\ pieces[Head(queue).proc[2]].kind = "Helicopter"

\* C15: add_piece with an id of the registry fails with ValueError and leaves the
\* registry, the generators and the scheduled events as they were; with a fresh id
\* it registers the Helicopter, keeps every other piece, and starts its process at
\* the time of the call, and that process takes its first step one wait (speed)
\* later.
C15_AddPiece ==
    [][/\ HelipadNext =>
            IF next_piece \in DOMAIN pieces
            THEN /\ error' = "ValueError"
                 /\ phase' = "failed"
                 /\ pieces' = pieces
                 /\ piece_keys' = piece_keys
                 /\ piece_generators' = piece_generators
                 /\ queue' = Tail(queue)
            ELSE /\ error' = "none"
                 /\ DOMAIN pieces' = DOMAIN pieces \cup {next_piece}
                 /\ \A p \in DOMAIN pieces : pieces'[p] = pieces[p]
                 /\ pieces'[next_piece].kind = "Helicopter"
                 /\ piece_keys' = Append(piece_keys, next_piece)
                 /\ piece_generators' = Append(piece_generators, PieceProc(next_piece))
                 /\ Head(queue') = [time |-> Head(queue).time, prio |-> "URGENT",
                                    proc |-> PieceProc(next_piece), kind |-> "init"]
       /\ HelicopterStarts =>
            /\ now' = now
            /\ \E i \in 1 .. Len(queue') :
                 queue'[i] = [time |-> now + pieces[Head(queue).proc[2]].speed,
                              prio |-> "NORMAL", proc |-> Head(queue).proc,
                              kind |-> "timeout"]]_vars

\* the Helipad called add_piece with the id of the static Target
C15_Witness ==
    /\ phase = "failed"
    /\ error = "ValueError"
    /\ next_piece = FirstPieceId + 1
    /\ FirstPieceId \in DOMAIN pieces
    /\ pieces[FirstPieceId].kind = "Target"

\* C16: the ids next_piece_id has returned are strictly increasing in the order of
\* the calls, so no id is returned twice.
C16_IdsStrictlyIncreasing ==
    \A i, j \in 1 .. Len(handed) : i < j => handed[i] < handed[j]

\* next_piece_id has been called MaxCalls times
C16_Witness == Len(handed) = MaxCalls /\ next_piece = FirstPieceId + MaxCalls

\* the pieces registered by setup()
Static == {p \in DOMAIN pieces : pieces[p].kind \in {"Target", "RWTarget"}}

\* C17 (as claimed): the counter starts above every id registered at setup, no id
\* it hands out is the id of such a piece, and the Helipad's add_piece never fails
\* with the duplicate-id error.
C17_CounterAboveStaticIds ==
    set_up = "true" =>
        /\ \A p \in Static : FirstPieceId > p
        /\ \A i \in 1 .. Len(handed) : handed[i] \notin Static
        /\ ~(error = "ValueError" /\ handed # << >>)

\* a spawn was handed the id of the static Target and the run failed on it
C17_Collision ==
    /\ handed # << >>
    /\ handed[Len(handed)] \in Static
    /\ error = "ValueError"

\* the first event of q is an earliest one
Earliest(q) == \A i \in 1 .. Len(q) : q[1].time <= q[i].time

\* processes a run can have at most: the RWTarget, three facilities, the helicopters
MaxGenerators == Len(<<RWId>>) + Len(facility_keys) + MaxHelicopters

\* what a pending event can still cause: an interruption nothing, a start one
\* timeout at least a unit later, a timeout before the horizon a later timeout and
\* either the start of a spawned piece or the interrupts of the watcher
RECURSIVE TimeoutWeight(_)
TimeoutWeight(t) ==
    IF t >= Horizon THEN 0 ELSE 2 * TimeoutWeight(t + 1) + MaxGenerators + 2

Weight(e) ==
    IF e.kind = "timeout" THEN TimeoutWeight(e.time)
    ELSE IF e.kind = "init" THEN TimeoutWeight(e.time + 1) + 1
    ELSE 1

RECURSIVE Pending(_)
Pending(q) == IF q = << >> THEN 0 ELSE Weight(Head(q)) + Pending(Tail(q))

\* C18: with waits of at least one unit, simulated time never passes the horizon and
\* no event is stamped later; time never goes back; every step of the run happens at
\* the time of an earliest pending wake-up; every such step lowers the weight of
\* what is pending, which is never negative, so only finitely many steps are taken
\* before no wake-up before the horizon is left; and the step then taken ends the
\* run (run() returns or raises).
C18_RunTerminates ==
    /\ [](/\ now <= Horizon
          /\ \A i \in 1 .. Len(event_queue) : event_queue[i].time <= Horizon
          /\ Pending(queue) >= 0)
    /\ [][/\ now' >= now
          /\ Running =>
               /\ now' = Head(queue).time
               /\ Earliest(queue)
               /\ phase' = "running" => Pending(queue') < Pending(queue)
          /\ (phase = "running" /\ ~Running) => phase' \in {"done", "failed"}]_vars

\* a run ended at the horizon with a target left and wake-ups still pending
C18_Witness ==
    /\ phase = "done"
    /\ now = Horizon
    /\ ~WatcherFired
    /\ queue # << >>

\* the points of the pieces setup() registered (both are targets and carry points)
StartingPoints == pieces[piece_keys[1]].points + pieces[piece_keys[2]].points

\* C19: once run() has started its processes, possible_points is the sum of the
\* points of the pieces registered at that moment, and no step of the run changes
\* it: not a spawned helicopter, not the destruction of a target.
C19_PossiblePointsFixed ==
    /\ [](phase \in {"running", "done"} => possible_points = StartingPoints)
    /\ [][phase = "running" => possible_points' = possible_points]_vars

\* a helicopter was spawned and a target destroyed, possible_points as at the start
C19_Witness ==
    /\ phase \in {"running", "done"}
    /\ \E p \in DOMAIN pieces : pieces[p].kind = "Helicopter"
    /\ \E p \in DOMAIN pieces : has_points(pieces[p]) /\ ~pieces[p].active
    /\ points > 0
    /\ possible_points = RWPoints + TargetPoints

\* C20 (as claimed): the positions random_pos() may return are all the cells of the
\* board, the edge column x = size and the edge row y = size included.
C20_RandomPosCoversBoard ==
    set_up = "true" => \A x \in Board, y \in Board : <<x, y>> \in random_pos

\* the positions random_pos() does return: the board without column and row size
C20_RandomPosMissesEdge ==
    set_up = "true" => random_pos = ((-size) .. (size - 1)) \X ((-size) .. (size - 1))

\* the positions of the registered pieces, by id
Positions == [p \in DOMAIN pieces |-> <<pieces[p].posx, pieces[p].posy>>]

\* C21: the events a step appends carry the ids of the registry and their positions
\* as the step's emission found them (a step moves or registers a piece before it
\* emits, and changes no position afterwards), and no later step changes the
\* snapshot of an event that is in the log.
C21_SnapshotAtEmission ==
    /\ [](\A i \in 1 .. Len(event_queue) : event_queue[i].pieces = Positions)
    /\ [][/\ Len(event_log') >= Len(event_log)
          /\ \A i \in 1 .. Len(event_log) :
                event_log'[i].pieces = event_log[i].pieces]_vars

\* an event is in the log, a piece has moved since and another was destroyed since
C21_Witness ==
    /\ event_log # << >>
    /\ event_log[1].pieces # Positions
    /\ DOMAIN event_log[1].pieces = DOMAIN pieces
    /\ \E i \in 2 .. Len(event_log) : event_log[i].msg[1] = "destroyed by"
    /\ event_log[1].msg[1] # "destroyed by"

\* C22 (as claimed): the direction of an RWTarget's move is drawn from all four of
\* +x (0), -x (1), +y (2) and -y (3).
C22_AllFourDirections ==
    phase = "running" => \A direction \in 0 .. 3 : direction \in randint(0, 3)

\* the directions that are drawn: -y (3) is not among them
C22_NoStepDown ==
    phase = "running" => randint(0, 3) = {0, 1, 2}

\* the unit step of a direction
UnitStep(direction) ==
    IF direction = 0 THEN <<1, 0>>
    ELSE IF direction = 1 THEN <<-1, 0>>
    ELSE IF direction = 2 THEN <<0, 1>> ELSE <<0, -1>>

\* the latest step emitted the 'moved' event of piece p
Moved(p) ==
    \E i \in 1 .. Len(event_queue) :
        /\ event_queue[i].piece[2] = p
        /\ event_queue[i].msg[1] = "moved to"

\* C23 (as claimed): a move of an active RWTarget from (x, y) takes it to wrap_pos of
\* (x, y) plus the unit step of one of the four directions, from every cell.
C23_MoveIsWrappedUnitStep ==
    [][\A p \in DOMAIN pieces :
          (pieces[p].kind = "RWTarget" /\ Moved(p)') =>
              \E direction \in 0 .. 3 :
                  <<pieces'[p].posx, pieces'[p].posy>> =
                      wrap_pos(pieces[p].posx + UnitStep(direction)[1],
                               pieces[p].posy + UnitStep(direction)[2])]_vars

\* an RWTarget on the left edge has made a move and is still on the left edge of the
\* same row (the step in direction -x)
C23_LeftEdgeStays ==
    /\ Moved(RWId)
    /\ wraps # << >>
    /\ wraps[1].posx = size
    /\ pieces[RWId].posx = -size

\* C24: a destroyed RWTarget never changes position again and emits no further
\* 'moved' event, and the resume of its pending wait ends its process.
C24_DestroyedRWTargetStops ==
    [][\A p \in DOMAIN pieces :
          (pieces[p].kind = "RWTarget" /\ ~pieces[p].active) =>
              /\ pieces'[p].posx = pieces[p].posx
              /\ pieces'[p].posy = pieces[p].posy
              /\ ~Moved(p)'
              /\ (/\ Running
                  /\ Head(queue).proc = PieceProc(p)
                  /\ Head(queue).kind = "timeout") => PieceProc(p) \in terminated']_vars

\* an RWTarget was destroyed while its wait was pending, and its process has ended at
\* the resume of that wait, before any shutdown
C24_Witness ==
    /\ phase = "running"
    /\ ~pieces[RWId].active
    /\ PieceProc(RWId) \in terminated
    /\ ~WatcherFired
    /\ now = RWSpeed

\* the latest step was a scan of the ReconPlane
Scanned == event_queue # << >> /\ event_queue[1].msg[1] = "began scanning"

\* the boards and numbers of strata the band arithmetic is tried on
SweepSizes == 1 .. (size + 1)
SweepStrata(sz) == 1 .. (2 * sz + 2)

\* a scan uses the stratum the index stands on and moves the index to the next one,
\* cyclically, the first scan using stratum 0
RoundRobin ==
    [][Scanned' =>
          /\ facilities'[ReconPlaneId].current_stratum =
                (facilities[ReconPlaneId].current_stratum + 1) % n_strata
          /\ event_queue'[1].msg[2] \in
                scan_rows(size, n_strata, facilities[ReconPlaneId].current_stratum)
          /\ (~logged /\ event_queue = << >>) =>
                facilities[ReconPlaneId].current_stratum = 0]_vars

\* C25 (as claimed): the stratum index advances round-robin from 0, and for every
\* half-width and every number of strata the y ranges of different strata differ.
C25_RoundRobinDistinctStrata ==
    /\ RoundRobin
    /\ []((phase = "idle" /\ set_up = "true") =>
            \A sz \in SweepSizes : \A n \in SweepStrata(sz) :
                \A s1, s2 \in 0 .. (n - 1) :
                    s1 # s2 => scan_rows(sz, n, s1) # scan_rows(sz, n, s2))

\* what holds: the strata differ whenever there are at most 2 * size of them
C25_DistinctUpToTwiceSize ==
    (phase = "idle" /\ set_up = "true") =>
        \A sz \in SweepSizes : \A n \in 1 .. (2 * sz) :
            \A s1, s2 \in 0 .. (n - 1) :
                s1 # s2 => scan_rows(sz, n, s1) # scan_rows(sz, n, s2)

\* C26 (as claimed): for every half-width and every number of strata from 1 to
\* 2 * size, every row of the board is in the range of some stratum.
C26_StrataCoverBoard ==
    (phase = "idle" /\ set_up = "true") =>
        \A sz \in SweepSizes : \A n \in 1 .. (2 * sz) :
            \A y \in (-sz) .. sz :
                \E s \in 0 .. (n - 1) : y \in scan_rows(sz, n, s)

\* what holds: the strata cover the board when n_strata divides 2 * size
C26_CoverWhenDivides ==
    (phase = "idle" /\ set_up = "true") =>
        \A sz \in SweepSizes : \A n \in 1 .. (2 * sz) :
            ((2 * sz) % n = 0) =>
                \A y \in (-sz) .. sz :
                    \E s \in 0 .. (n - 1) : y \in scan_rows(sz, n, s)

\* the 'attacked' events of a log
Attacks(log) == SelectSeq(log, LAMBDA e : e.msg[1] = "attacked")

Announcing == {"fired at", "fired (antithetic) at", "moved to", "attacked"}

\* in a log, every 'destroyed by' event follows, with nothing but 'destroyed by'
\* events of the same attacker in between, the event in which that attacker
\* announced the attacked cell, has its timestamp, and is of a piece on that cell
Contiguous(log) ==
    \A i \in 1 .. Len(log) :
        log[i].msg[1] = "destroyed by" =>
            /\ i > 1
            /\ log[i - 1].time = log[i].time
            /\ \/ /\ log[i - 1].msg[1] = "destroyed by"
                  /\ log[i - 1].msg[2] = log[i].msg[2]
                  /\ log[i - 1].pieces[log[i - 1].piece[2]] = log[i].pieces[log[i].piece[2]]
               \/ /\ log[i - 1].msg[1] \in Announcing
                  /\ log[i - 1].piece = log[i].msg[2]
                  /\ log[i].pieces[log[i].piece[2]] = <<log[i - 1].msg[2], log[i - 1].msg[3]>>

\* C28: in the log, the 'destroyed by' events of an attack directly follow the event
\* that announced it, with its timestamp and no other actor's event in between; the
\* events of one step have one timestamp; the one attack of a helicopter's step is
\* on the cell the helicopter has just moved to.
C28_StepsAtomic ==
    /\ Contiguous(event_queue)
    /\ Contiguous(event_log)
    /\ \A i \in 1 .. Len(event_queue) : event_queue[i].time = event_queue[1].time
    /\ (event_queue # << >> /\ event_queue[1].piece[1] = "Helicopter") =>
          LET p == event_queue[1].piece[2]
          IN  /\ event_queue[1].msg = <<"moved to", pieces[p].posx, pieces[p].posy>>
              /\ Len(calls) = 1
              /\ calls[1].posx = pieces[p].posx
              /\ calls[1].posy = pieces[p].posy
              /\ calls[1].attacker = <<"Helicopter", p>>

\* a helicopter has moved onto a target's cell and destroyed it in the same step
C28_Witness ==
    /\ Len(event_queue) >= 2
    /\ event_queue[1].piece[1] = "Helicopter"
    /\ event_queue[2].msg = <<"destroyed by", event_queue[1].piece>>
    /\ calls[1].ret > 0

\* the log holds a shot that destroyed two targets, after events of other actors
C28_LogWitness ==
    \E i \in 2 .. Len(event_log) :
        /\ event_log[i].msg[1] \in Announcing
        /\ event_log[i - 1].piece # event_log[i].piece
        /\ i + 2 <= Len(event_log)
        /\ event_log[i + 1].msg[1] = "destroyed by"
        /\ event_log[i + 2].msg[1] = "destroyed by"

\* e is a pending event of q, and its place there
Pends(q, e) == \E i \in 1 .. Len(q) : q[i] = e
Place(q, e) == CHOOSE i \in 1 .. Len(q) : q[i] = e

\* C29: the pending wake-ups are taken in the order of their times; a step never
\* reorders the wake-ups that were pending, and puts a wake-up it schedules behind
\* every pending one of the same time and priority, so that processes due at one
\* instant resume in the order their wake-ups were scheduled; at the start that
\* order is the pieces in registry order, the facilities, then the watcher.
C29_ResumeInScheduledOrder ==
    /\ [](\A i, j \in 1 .. Len(queue) : i < j => queue[i].time <= queue[j].time)
    /\ [][/\ \A i, j \in 1 .. Len(queue') :
                /\ (i < j /\ Pends(queue, queue'[i]) /\ Pends(queue, queue'[j])) =>
                      Place(queue, queue'[i]) < Place(queue, queue'[j])
                /\ (/\ Pends(queue, queue'[i])
                    /\ ~Pends(queue, queue'[j])
                    /\ queue'[i].time = queue'[j].time
                    /\ queue'[i].prio = queue'[j].prio) => i < j
          /\ (phase = "idle" /\ phase' = "running") =>
                [i \in 1 .. Len(queue') |-> queue'[i].proc] =
                    PieceProcs(runnable_keys) \o FacilityProcs(active_keys)
                    \o <<WatcherProc>>]_vars

\* three processes are due at one instant, their wake-ups scheduled in different
\* steps: the RWTarget's at the start, a facility's and the watcher's one unit later
C29_Witness ==
    /\ phase = "running"
    /\ now = CheckInterval
    /\ Len(queue) >= 3
    /\ queue[1].proc = PieceProc(RWId)
    /\ queue[2].proc[1] = "facility"
    /\ queue[3].proc = WatcherProc
    /\ queue[1].time = queue[3].time
    /\ queue[1].kind = "timeout"

\* C30: the events a step appends are stamped with the simulated time of the step;
\* a step leaves the events already in the log in place and in order and adds its
\* own at the end; the timestamps never decrease along the log.
C30_LogAppendOnlyTimeOrdered ==
    /\ [](/\ \A i \in 1 .. Len(event_queue) : event_queue[i].time = now
          /\ \A i, j \in 1 .. Len(event_log) :
                i < j => event_log[i].time <= event_log[j].time)
    /\ [][/\ Len(event_log') >= Len(event_log)
          /\ SubSeq(event_log', 1, Len(event_log)) = event_log
          /\ (phase = "running" /\ LogFollowed) =>
                event_log' = event_log \o event_queue']_vars

\* a finished run whose log holds events of different times, the last one of them
\* appended by a step later than the first
C30_Witness ==
    /\ phase = "done"
    /\ Len(event_log) >= 3
    /\ event_log[1].time < event_log[Len(event_log)].time
    /\ event_log[1].time > 0

\* the latest step emitted the 'destroyed by' event of piece p
Destroyed(p) ==
    \E i \in 1 .. Len(event_queue) :
        /\ event_queue[i].piece[2] = p
        /\ event_queue[i].msg[1] = "destroyed by"

\* C31: a step of the run keeps every registered piece in the registry, under its
\* id and in its place in the key order, as the piece it was (kind, points, owner);
\* an inactive piece stays inactive and is not destroyed again; a piece is
\* destroyed by the step that makes it inactive and by no other.
C31_RegistryOnlyGrows ==
    [][phase = "running" =>
          /\ Len(piece_keys') >= Len(piece_keys)
          /\ SubSeq(piece_keys', 1, Len(piece_keys)) = piece_keys
          /\ \A p \in DOMAIN pieces :
                /\ p \in DOMAIN pieces'
                /\ pieces'[p].kind = pieces[p].kind
                /\ pieces'[p].points = pieces[p].points
                /\ pieces'[p].target = pieces[p].target
                /\ pieces'[p].parent = pieces[p].parent
                /\ ~pieces[p].active => ~pieces'[p].active
                /\ Destroyed(p)' <=> (pieces[p].active /\ ~pieces'[p].active)]_vars

\* the registry has grown by a helicopter, which has destroyed a target
C31_Witness ==
    /\ phase = "running"
    /\ Len(piece_keys) > 2
    /\ \E p \in DOMAIN pieces : pieces[p].kind = "Helicopter" /\ pieces[p].active
    /\ \E p \in DOMAIN pieces : Destroyed(p) /\ ~pieces[p].active

\* C32: between steps the earned_points of the facilities add up to the engine's
\* points, what a helicopter earns being credited to the Helipad that spawned it
\* and to no other facility.
C32_PointsCreditedToFacilities ==
    /\ SumOver(DOMAIN facilities,
               [f \in DOMAIN facilities |-> facilities[f].earned_points]) = points
    /\ \A i \in 1 .. Len(calls) :
          /\ calls[i].after.points - calls[i].before.points = calls[i].ret
          /\ calls[i].after.facilities[calls[i].owner].earned_points =
                calls[i].before.facilities[calls[i].owner].earned_points + calls[i].ret
          /\ calls[i].attacker[1] = "Helicopter" =>
                /\ facilities[calls[i].owner].kind = "Helipad"
                /\ calls[i].owner = pieces[calls[i].attacker[2]].parent

\* a helicopter has destroyed a target and its Helipad holds all the points
C32_Witness ==
    /\ phase = "running"
    /\ points > 0
    /\ facilities[HelipadId].earned_points = points
    /\ calls # << >>
    /\ calls[1].attacker[1] = "Helicopter"
    /\ calls[1].ret > 0

\* the latest step was a firing of the Artillery
ArtilleryFired == calls # << >> /\ calls[1].attacker[1] = "Artillery"

\* C33: in simulation mode a firing of the Artillery leaves one event, 'fired at'
\* (x, y), and none for the mirrored shot; both attacks are made, the first on
\* (x, y) and the second on (-x, -y), and what each earns is added to points and
\* to the Artillery's earned_points; the log grows by that one event.
C33_OneEventPerFiring ==
    /\ []((simulation_mode /\ ArtilleryFired) =>
            /\ Len(event_queue) = 1
            /\ event_queue[1].piece = calls[1].attacker
            /\ event_queue[1].msg = <<"fired at", calls[1].posx, calls[1].posy>>
            /\ Len(calls) = 2
            /\ calls[2].attacker = calls[1].attacker
            /\ calls[2].posx = -calls[1].posx
            /\ calls[2].posy = -calls[1].posy
            /\ \A i \in 1 .. 2 :
                  /\ calls[i].after.points = calls[i].before.points + calls[i].ret
                  /\ calls[i].after.facilities[ArtilleryId].earned_points =
                        calls[i].before.facilities[ArtilleryId].earned_points
                        + calls[i].ret
            /\ points = calls[2].after.points
            /\ facilities[ArtilleryId].earned_points =
                  calls[2].after.facilities[ArtilleryId].earned_points)
    /\ [][(simulation_mode /\ ArtilleryFired') =>
             Len(event_log') = Len(event_log) + 1]_vars

\* in simulation mode the mirrored shot of a firing has destroyed a target
C33_Witness ==
    /\ simulation_mode
    /\ ArtilleryFired
    /\ calls[2].ret > 0
    /\ ~(calls[1].posx = 0 /\ calls[1].posy = 0)
    /\ Len(event_queue) = 1

\* the targets of the registry that are inactive
Inactive == {p \in DOMAIN pieces : pieces[p].target /\ ~pieces[p].active}

\* C34: between steps points is the sum of the points of the inactive targets, and
\* a step adds to points the points of the targets it deactivates, nothing else.
C34_PointsOfInactiveTargets ==
    /\ [](points = SumOver(Inactive, [p \in DOMAIN pieces |-> pieces[p].points]))
    /\ [][phase = "running" =>
             points' - points =
                SumOver(Inactive' \ Inactive,
                        [p \in DOMAIN pieces' |-> pieces'[p].points])]_vars

\* both targets are inactive, destroyed by different steps, and points is their sum
C34_Witness ==
    /\ phase = "running"
    /\ Inactive = {RWId, TargetId}
    /\ points = RWPoints + TargetPoints
    /\ Cardinality({p \in DOMAIN pieces : Destroyed(p)}) = 1

\* the state of the simulation in a world: the registry with every piece's
\* position and flags (helicopters included), points and the facilities with
\* their earned_points
SimState(w) ==
    [pieces |-> w.pieces, piece_keys |-> w.piece_keys, points |-> w.points,
     facilities |-> w.facilities]

\* a world with the events suppressed, and the same world with the events emitted
Silent(w) == [w EXCEPT !.sim = TRUE]
Logging(w) == [w EXCEPT !.sim = FALSE]

\* C35: emitting events does not affect the state of the simulation: from every
\* state of a simulation-mode run, the step of the process that resumes next,
\* taken with the same random draws, leaves the same positions, flags,
\* helicopters, points and earned_points (hence the same score) with the events
\* emitted as with the events suppressed, and a Helipad step spawns the same
\* helicopter or fails alike; what the step schedules depends on that state only.
C35_EventsDoNotAffectState ==
    (Running /\ Head(queue).kind = "timeout") =>
        LET e == Head(queue)
            x == e.proc[2]
            w == World(e.time)
        IN  IF e.proc[1] = "piece"
            THEN IF ~pieces[x].active THEN TRUE
                 ELSE IF pieces[x].kind = "RWTarget"
                 THEN \A direction \in randint(0, 3) :
                         SimState(RWTarget_step(Silent(w), x, direction)) =
                            SimState(RWTarget_step(Logging(w), x, direction))
                 ELSE \A j \in LevyJumps :
                         SimState(Helicopter_step(Silent(w), x, j)) =
                            SimState(Helicopter_step(Logging(w), x, j))
            ELSE IF e.proc[1] # "facility" THEN TRUE
                 ELSE IF facilities[x].kind = "Artillery"
                 THEN \A pos \in random_pos :
                         SimState(Artillery_step(Silent(w), x, pos)) =
                            SimState(Artillery_step(Logging(w), x, pos))
                 ELSE IF facilities[x].kind = "Helipad"
                 THEN \A pos \in random_pos :
                         LET id == next_piece_id(next_piece).ret
                             off == Helipad_step(Silent(w), x, id, pos)
                             on == Helipad_step(Logging(w), x, id, pos)
                         IN  /\ off.raised = on.raised
                             /\ off.h = on.h
                             /\ SimState(off.w) = SimState(on.w)
                 ELSE \A scan_y \in scan_rows(size, n_strata,
                                              facilities[x].current_stratum),
                         cols \in sampled_columns(facilities[x]) :
                         SimState(ReconPlane_step(Silent(w), x, scan_y, cols)) =
                            SimState(ReconPlane_step(Logging(w), x, scan_y, cols))

\* in simulation mode a helicopter's step has destroyed a target and no event was
\* emitted, neither for its move nor for the destruction
C35_Witness ==
    /\ simulation_mode
    /\ phase = "running"
    /\ calls # << >>
    /\ calls[1].attacker[1] = "Helicopter"
    /\ calls[1].ret > 0
    /\ points > 0
    /\ event_queue = << >>

\* the resources of the facilities run() starts
running_cost ==
    SumSeq([f \in DOMAIN facilities |-> facilities[f].resources], active_keys)

\* C36: in a run that passed the budget check the resources of the facilities
\* that run, those with resources > 0, total at most resource_limit, whatever
\* integers the allocation holds, negative ones included.
C36_RunningWithinBudget ==
    phase \in {"running", "done"} => running_cost <= resource_limit

====
